---- MODULE Spec2Model ----
(***************************************************************************)
(* The giveaway bot of src/main.py: a per-user four-step form (name,       *)
(* contact, city, photo) kept in the dispatcher's in-memory FSM storage,   *)
(* and one INSERT into the sqlite table "receipts" when the photo arrives. *)
(*                                                                         *)
(* One action stands for one handler run to completion.  The inputs the    *)
(* environment decides are parameters of the actions: the message, whether *)
(* the storage write succeeds (dbOk) and whether the transport accepts a   *)
(* reply (sendOk; message.answer raises when it does not).                 *)
(*                                                                         *)
(* Optional Python values are encoded as sequences: None is <<>> and a     *)
(* value x is <<x>>.  A text is a sequence of characters.                  *)
(***************************************************************************)
EXTENDS Integers, Sequences, FiniteSets, TLC

\* ------------------------------------------------------------------ bounds
MaxLen == 3
MaxRows == 2
MaxTasks == 2

Users == {1, 2}

\* ------------------------------------------------------------ basic values
None == <<>>
Some(x) == <<x>>

Whitespace == {" "}
Alphabet == {" ", "a"}

RECURSIVE TextsOfLen(_)
TextsOfLen(n) ==
    IF n = 0 THEN {<<>>}
    ELSE {Append(t, c) : t \in TextsOfLen(n - 1), c \in Alphabet}

AllTexts == UNION {TextsOfLen(n) : n \in 0..MaxLen}
OneText == {<<"a">>}

\* str.strip(): drop leading and trailing whitespace
RECURSIVE lstrip(_)
lstrip(t) ==
    IF t = <<>> THEN <<>>
    ELSE IF Head(t) \in Whitespace THEN lstrip(Tail(t)) ELSE t

RECURSIVE rstrip(_)
rstrip(t) ==
    IF t = <<>> THEN <<>>
    ELSE IF t[Len(t)] \in Whitespace THEN rstrip(SubSeq(t, 1, Len(t) - 1)) ELSE t

\* (variant: only the leading whitespace is dropped)
strip_left_only(t) == lstrip(t)

strip(t) == rstrip(lstrip(t))

\* (variant: the value is stored as the transport gave it)
OrDefault_missing(x, default) == x

\* x or default, on an optional string: None and "" are falsy
OrDefault(x, default) == IF x = None \/ x = Some("") THEN Some(default) ELSE x

NoUsername == "No Username"

\* ------------------------------------------------------------------ steps
NONE == "NONE"
waiting_for_name == "waiting_for_name"
waiting_for_contact == "waiting_for_contact"
waiting_for_city == "waiting_for_city"
waiting_for_photo == "waiting_for_photo"

ReceiptForm == {waiting_for_name, waiting_for_contact, waiting_for_city, waiting_for_photo}
TextSteps == {waiting_for_name, waiting_for_contact, waiting_for_city}

\* ---------------------------------------------------------------- messages
StartText == <<"/start">>

\* A message: its text and its photo sizes (file ids, smallest first), each optional.
\* message.from_user.username, which only the photo handler stores, is an input
\* of that handler.
StartMessages == {[text |-> Some(StartText), photo |-> None]}
TextMessages(T) == {[text |-> Some(t), photo |-> None] : t \in T}
PhotoMessages(P) == {[text |-> None, photo |-> Some(p)] : p \in P}

Handles == {None, Some(""), Some("alice")}
OneHandle == {Some("alice")}
Photos == {<<"small", "large">>, <<"only">>}
OnePhoto == {<<"small", "large">>}

\* CommandStart(): the text is the /start command
CommandStart(m) == m.text # None /\ m.text[1] = StartText
\* F.photo: the message carries a non-empty list of photo sizes
F_photo(m) == m.photo # None /\ m.photo[1] # <<>>

\* (variant: the photo handler is registered with the F.photo filter alone)
DispatchMessage_no_state(s, m) ==
    IF CommandStart(m) THEN "start_command"
    ELSE IF s = waiting_for_name THEN "handle_name_input"
    ELSE IF s = waiting_for_contact THEN "handle_contact_input"
    ELSE IF s = waiting_for_city THEN "handle_city_input"
    ELSE IF F_photo(m) THEN "handle_photo_input"
    ELSE "unhandled"

\* The dispatcher calls the first registered message handler whose filters pass.
DispatchMessage(s, m) ==
    IF CommandStart(m) THEN "start_command"
    ELSE IF s = waiting_for_name THEN "handle_name_input"
    ELSE IF s = waiting_for_contact THEN "handle_contact_input"
    ELSE IF s = waiting_for_city THEN "handle_city_input"
    ELSE IF s = waiting_for_photo /\ F_photo(m) THEN "handle_photo_input"
    ELSE "unhandled"

\* ------------------------------------------------------------------- state
VARIABLES
    phase,        \* "boot": main() has not yet called init_db; "polling": handlers run
    dbExists,     \* the file DB_FILE exists
    tableExists,  \* the table receipts exists in it
    receipts,     \* the rows of the table, in insertion order
    sqliteSeq,    \* AUTOINCREMENT: the largest id the table has ever used
    step,         \* FSM state of each user (NONE: no state set)
    fields,       \* FSM data of each user: a function from a set of keys to texts
    out,          \* the replies the last handled event delivered to the user
    last,         \* the last handled event: user, handler, kind, message, whether the handler raised
    pending,      \* per user, the handlers suspended in await message.answer: what each does next
    typed,        \* per user, what the text handlers stored since the user's last /start
    trail         \* per user, the steps visited while the events follow start, text, text, text, photo

vars == <<phase, dbExists, tableExists, receipts, sqliteSeq, step, fields, out, last,
          pending, typed, trail>>
db == <<dbExists, tableExists, receipts, sqliteSeq>>

EmptyDict == [k \in {} |-> <<>>]
NoMessage == [text |-> None, photo |-> None]
NoEvent == [user |-> 0, handler |-> "none", event |-> "none", msg |-> NoMessage, raised |-> FALSE]

\* dict.update(key=value)
update_data(d, key, value) ==
    [k \in DOMAIN d \cup {key} |-> IF k = key THEN value ELSE d[k]]

Reply(text, id) == [text |-> text, id |-> id]

EventKind(m) ==
    IF CommandStart(m) THEN "start" ELSE IF m.photo # None THEN "photo" ELSE "text"

Event(u, h, m, raised) ==
    [user |-> u, handler |-> h, event |-> EventKind(m), msg |-> m, raised |-> raised]

\* ------------------------------------------------- observers (not in the code)
FullPath == <<NONE, waiting_for_name, waiting_for_contact, waiting_for_city,
              waiting_for_photo, NONE>>
Pattern == <<"start", "text", "text", "text", "photo">>

\* The trail of user u after an event of kind k took it from (s, d) to s2.
NextTrail(u, k, s, d, s2) ==
    IF k = "start" /\ s = NONE /\ d = EmptyDict THEN <<NONE, s2>>
    ELSE IF Len(trail[u]) \in 2..5 /\ k = Pattern[Len(trail[u])] THEN Append(trail[u], s2)
    ELSE <<>>

Observe(u, k, s2) ==
    trail' = [trail EXCEPT ![u] = NextTrail(u, k, step[u], fields[u], s2)]

\* ------------------------------------------------------------------- Init
Init ==
    /\ phase = "boot"
    /\ \E file \in BOOLEAN, table \in BOOLEAN :
          /\ (table => file)
          /\ dbExists = file
          /\ tableExists = table
    /\ receipts = <<>>
    /\ sqliteSeq = 0
    /\ step = [u \in Users |-> NONE]
    /\ fields = [u \in Users |-> EmptyDict]
    /\ out = <<>>
    /\ last = NoEvent
    /\ pending = [u \in Users |-> <<>>]
    /\ typed = [u \in Users |-> EmptyDict]
    /\ trail = [u \in Users |-> <<>>]

\* ---------------------------------------------------------------- init_db
\* (variant: the table is created anew on every start)
init_db_recreate ==
    /\ phase = "boot"
    /\ phase' = "polling"
    /\ dbExists' = TRUE
    /\ tableExists' = TRUE
    /\ receipts' = <<>>
    /\ sqliteSeq' = 0
    /\ UNCHANGED <<step, fields, out, last, pending, typed, trail>>

\* os.path.exists(DB_FILE) decides; CREATE TABLE runs only in a file just created.
init_db ==
    /\ phase = "boot"
    /\ phase' = "polling"
    /\ IF ~dbExists
         THEN dbExists' = TRUE /\ tableExists' = TRUE
         ELSE UNCHANGED <<dbExists, tableExists>>
    /\ UNCHANGED <<receipts, sqliteSeq, step, fields, out, last, pending, typed, trail>>

\* The process stops and is started again: MemoryStorage is lost, the file stays.
Restart ==
    /\ phase = "polling"
    /\ phase' = "boot"
    /\ step' = [u \in Users |-> NONE]
    /\ fields' = [u \in Users |-> EmptyDict]
    /\ out' = <<>>
    /\ last' = NoEvent
    /\ pending' = [u \in Users |-> <<>>]
    /\ typed' = [u \in Users |-> EmptyDict]
    /\ trail' = [u \in Users |-> <<>>]
    /\ UNCHANGED db

\* ---------------------------------------------------------- start_command
start_command(u, m, sendOk) ==
    /\ phase = "polling"
    /\ DispatchMessage(step[u], m) = "start_command"
    /\ IF sendOk
         THEN /\ out' = <<Reply("ask_name", 0)>>
              /\ step' = [step EXCEPT ![u] = waiting_for_name]
              /\ Observe(u, "start", waiting_for_name)
         ELSE /\ out' = <<>>
              /\ step' = step
              /\ Observe(u, "start", step[u])
    /\ last' = Event(u, "start_command", m, ~sendOk)
    /\ typed' = [typed EXCEPT ![u] = EmptyDict]
    /\ UNCHANGED <<phase, db, fields, pending>>

\* ------------------------------- handle_name_input / contact / city bodies
\* (variant: a message without text is read as the empty text)
TextInput_blank(u, m, sendOk, handler, key, prompt, next) ==
    /\ phase = "polling"
    /\ DispatchMessage(step[u], m) = handler
    /\ LET text == IF m.text = None THEN <<>> ELSE m.text[1]
       IN /\ fields' = [fields EXCEPT ![u] = update_data(@, key, strip(text))]
          /\ typed' = [typed EXCEPT ![u] = update_data(@, key, fields'[u][key])]
          /\ last' = Event(u, handler, m, ~sendOk)
          /\ IF sendOk
               THEN /\ out' = <<Reply(prompt, 0)>>
                    /\ step' = [step EXCEPT ![u] = next]
                    /\ Observe(u, EventKind(m), next)
               ELSE /\ out' = <<>>
                    /\ step' = step
                    /\ Observe(u, EventKind(m), step[u])
    /\ UNCHANGED <<phase, db, pending>>

\* message.text.strip() raises AttributeError when the message has no text.
TextInput(u, m, sendOk, handler, key, prompt, next) ==
    /\ phase = "polling"
    /\ DispatchMessage(step[u], m) = handler
    /\ IF m.text = None
         THEN /\ last' = Event(u, handler, m, TRUE)
              /\ out' = <<>>
              /\ Observe(u, EventKind(m), step[u])
              /\ UNCHANGED <<step, fields, typed>>
         ELSE /\ fields' = [fields EXCEPT ![u] = update_data(@, key, strip(m.text[1]))]
              /\ typed' = [typed EXCEPT ![u] = update_data(@, key, fields'[u][key])]
              /\ last' = Event(u, handler, m, ~sendOk)
              /\ IF sendOk
                   THEN /\ out' = <<Reply(prompt, 0)>>
                        /\ step' = [step EXCEPT ![u] = next]
                        /\ Observe(u, "text", next)
                   ELSE /\ out' = <<>>
                        /\ step' = step
                        /\ Observe(u, "text", step[u])
    /\ UNCHANGED <<phase, db, pending>>

handle_name_input(u, m, sendOk) ==
    /\ step[u] = waiting_for_name
    /\ TextInput(u, m, sendOk, "handle_name_input", "name", "ask_contact", waiting_for_contact)

\* (variant: the contact handler moves on to the photo step)
handle_contact_input_skip(u, m, sendOk) ==
    /\ step[u] = waiting_for_contact
    /\ TextInput(u, m, sendOk, "handle_contact_input", "contact", "ask_city", waiting_for_photo)

handle_contact_input(u, m, sendOk) ==
    /\ step[u] = waiting_for_contact
    /\ TextInput(u, m, sendOk, "handle_contact_input", "contact", "ask_city", waiting_for_city)

handle_city_input(u, m, sendOk) ==
    /\ step[u] = waiting_for_city
    /\ TextInput(u, m, sendOk, "handle_city_input", "city", "ask_photo", waiting_for_photo)

\* ------------------------------------------------------ handle_photo_input
\* message.photo[-1].file_id
photo_id(m) == m.photo[1][Len(m.photo[1])]

\* cursor.lastrowid of an INSERT into an AUTOINCREMENT table
lastrowid == sqliteSeq + 1

\* (variant: the id is read before the INSERT runs)
receipt_id_stale == sqliteSeq

\* receipt_id = cursor.lastrowid
receipt_id == lastrowid

\* (variant: the INSERT names no city column)
Row_partial(u, m, username, user_data) ==
    [id |-> lastrowid,
     user_id |-> u,
     user_name |-> OrDefault(username, NoUsername),
     name |-> user_data["name"],
     contact |-> user_data["contact"],
     city |-> None,
     photo_id |-> photo_id(m)]

Row(u, m, username, user_data) ==
    [id |-> lastrowid,
     user_id |-> u,
     user_name |-> OrDefault(username, NoUsername),
     name |-> user_data["name"],
     contact |-> user_data["contact"],
     city |-> user_data["city"],
     photo_id |-> photo_id(m)]

\* The try block reaches conn.commit(): the keys are there, the table exists,
\* and the store does not fail.
InsertSucceeds(user_data, dbOk) ==
    /\ {"name", "contact", "city"} \subseteq DOMAIN user_data
    /\ tableExists
    /\ dbOk

\* (variant: the storage is emptied for every user)
clear_all(u) ==
    /\ step' = [v \in Users |-> NONE]
    /\ fields' = [v \in Users |-> EmptyDict]

\* (variant: set_state(None), which keeps the data)
clear_state_only(u) ==
    /\ step' = [step EXCEPT ![u] = NONE]
    /\ fields' = fields

\* state.clear()
clear(u) ==
    /\ step' = [step EXCEPT ![u] = NONE]
    /\ fields' = [fields EXCEPT ![u] = EmptyDict]

\* (variant: the confirmation is sent after the try statement, whatever it did)
PhotoReplies_always(saved, sendOk, sendOk2) ==
    (IF ~saved /\ sendOk2 THEN <<Reply("error", 0)>> ELSE <<>>)
    \o (IF sendOk THEN <<Reply("receipt", receipt_id)>> ELSE <<>>)

\* The replies of the photo handler: the confirmation at the end of the try
\* block, the error text from the except block.
PhotoReplies(saved, sendOk, sendOk2) ==
    (IF saved /\ sendOk THEN <<Reply("receipt", receipt_id)>> ELSE <<>>)
    \o (IF (~saved \/ ~sendOk) /\ sendOk2 THEN <<Reply("error", 0)>> ELSE <<>>)

handle_photo_input(u, m, username, dbOk, sendOk, sendOk2) ==
    /\ phase = "polling"
    /\ DispatchMessage(step[u], m) = "handle_photo_input"
    /\ LET user_data == fields[u]
           saved == InsertSucceeds(user_data, dbOk)
           \* the except block is entered when the insert or the confirmation raises
           caught == ~saved \/ ~sendOk
           escaped == caught /\ ~sendOk2
       IN /\ IF saved
               THEN /\ receipts' = Append(receipts, Row(u, m, username, user_data))
                    /\ sqliteSeq' = lastrowid
               ELSE UNCHANGED <<receipts, sqliteSeq>>
          /\ dbExists' = TRUE
          /\ UNCHANGED tableExists
          /\ out' = PhotoReplies(saved, sendOk, sendOk2)
          /\ last' = Event(u, "handle_photo_input", m, escaped)
          /\ IF escaped
               THEN UNCHANGED <<step, fields, typed>> /\ Observe(u, "photo", step[u])
               ELSE /\ clear(u)
                    /\ typed' = [typed EXCEPT ![u] = EmptyDict]
                    /\ Observe(u, "photo", NONE)
    /\ UNCHANGED <<phase, pending>>

\* ------------------------------------------------------------ handle_cancel
\* (variant: cancelling also withdraws the last stored row)
handle_cancel_withdraw(u, sendOk) ==
    /\ phase = "polling"
    /\ clear(u)
    /\ out' = IF sendOk THEN <<Reply("cancelled", 0)>> ELSE <<>>
    /\ last' = [user |-> u, handler |-> "handle_cancel", event |-> "cancel",
                msg |-> NoMessage, raised |-> ~sendOk]
    /\ typed' = [typed EXCEPT ![u] = EmptyDict]
    /\ Observe(u, "cancel", NONE)
    /\ receipts' = SubSeq(receipts, 1, Len(receipts) - 1)
    /\ UNCHANGED <<phase, dbExists, tableExists, sqliteSeq, pending>>

handle_cancel(u, sendOk) ==
    /\ phase = "polling"
    /\ clear(u)
    /\ out' = IF sendOk THEN <<Reply("cancelled", 0)>> ELSE <<>>
    /\ last' = [user |-> u, handler |-> "handle_cancel", event |-> "cancel",
                msg |-> NoMessage, raised |-> ~sendOk]
    /\ typed' = [typed EXCEPT ![u] = EmptyDict]
    /\ Observe(u, "cancel", NONE)
    /\ UNCHANGED <<phase, db, pending>>

\* ------------------------------------------- a message no handler accepts
unhandled(u, m) ==
    /\ phase = "polling"
    /\ DispatchMessage(step[u], m) = "unhandled"
    /\ out' = <<>>
    /\ last' = Event(u, "unhandled", m, FALSE)
    /\ Observe(u, EventKind(m), step[u])
    /\ UNCHANGED <<phase, db, step, fields, pending, typed>>

\* ------------------------------------------- handlers running as tasks
\* dp.start_polling hands every update to a task of its own, and the dispatcher
\* is built without an events isolation, so a handler suspended in
\* await message.answer lets the handlers of later updates run, those of the
\* same user included.  Each handler is cut at that await: the part before it
\* runs when the update is taken, the rest when the transport answers.
\* (The transport accepts every reply here.)
Suspended(handler, then, id) == [handler |-> handler, then |-> then, receipt_id |-> id]

Suspend(u, task) ==
    /\ Len(pending[u]) < MaxTasks
    /\ pending' = [pending EXCEPT ![u] = Append(@, task)]

\* start_command up to await message.answer(...)
start_command_begin(u, m) ==
    /\ phase = "polling"
    /\ DispatchMessage(step[u], m) = "start_command"
    /\ out' = <<Reply("ask_name", 0)>>
    /\ last' = Event(u, "start_command", m, FALSE)
    /\ Suspend(u, Suspended("start_command", waiting_for_name, 0))
    /\ UNCHANGED <<phase, db, step, fields, typed, trail>>

\* a text handler up to await message.answer(...)
TextInput_begin(u, m, handler, key, prompt, next) ==
    /\ phase = "polling"
    /\ DispatchMessage(step[u], m) = handler
    /\ IF m.text = None
         THEN /\ last' = Event(u, handler, m, TRUE)
              /\ out' = <<>>
              /\ UNCHANGED <<fields, pending>>
         ELSE /\ fields' = [fields EXCEPT ![u] = update_data(@, key, strip(m.text[1]))]
              /\ last' = Event(u, handler, m, FALSE)
              /\ out' = <<Reply(prompt, 0)>>
              /\ Suspend(u, Suspended(handler, next, 0))
    /\ UNCHANGED <<phase, db, step, typed, trail>>

handle_name_input_begin(u, m) ==
    /\ step[u] = waiting_for_name
    /\ TextInput_begin(u, m, "handle_name_input", "name", "ask_contact", waiting_for_contact)

handle_contact_input_begin(u, m) ==
    /\ step[u] = waiting_for_contact
    /\ TextInput_begin(u, m, "handle_contact_input", "contact", "ask_city", waiting_for_city)

handle_city_input_begin(u, m) ==
    /\ step[u] = waiting_for_city
    /\ TextInput_begin(u, m, "handle_city_input", "city", "ask_photo", waiting_for_photo)

\* handle_photo_input up to the await message.answer(...) of the try or the
\* except block: the row is committed before the handler is suspended.
handle_photo_input_begin(u, m, username, dbOk) ==
    /\ phase = "polling"
    /\ DispatchMessage(step[u], m) = "handle_photo_input"
    /\ LET user_data == fields[u]
           saved == InsertSucceeds(user_data, dbOk)
       IN /\ IF saved
               THEN /\ receipts' = Append(receipts, Row(u, m, username, user_data))
                    /\ sqliteSeq' = lastrowid
               ELSE UNCHANGED <<receipts, sqliteSeq>>
          /\ dbExists' = TRUE
          /\ UNCHANGED tableExists
          /\ out' = PhotoReplies(saved, TRUE, TRUE)
          /\ last' = Event(u, "handle_photo_input", m, FALSE)
          /\ Suspend(u, Suspended("handle_photo_input", NONE, IF saved THEN receipt_id ELSE 0))
    /\ UNCHANGED <<phase, step, fields, typed, trail>>

\* The transport answers: the i-th suspended handler of u runs its last
\* statement, state.set_state(...) or state.clear().
handler_resume(u, i) ==
    /\ phase = "polling"
    /\ i \in 1..Len(pending[u])
    /\ IF pending[u][i].then = NONE
         THEN clear(u)
         ELSE step' = [step EXCEPT ![u] = pending[u][i].then] /\ fields' = fields
    /\ pending' = [pending EXCEPT ![u] =
                      SubSeq(@, 1, i - 1) \o SubSeq(@, i + 1, Len(@))]
    /\ UNCHANGED <<phase, db, out, last, typed, trail>>

\* ------------------------------------------------------------ specifications
\* U: the users who write; T, P, H: the texts, photos and handles they send;
\* S: the outcomes of a reply ({TRUE}: the transport accepts every reply);
\* cap: the photo handler runs while the table has used fewer than cap ids.
NextOver(U, T, P, H, S, cap) ==
    \/ init_db
    \/ Restart
    \/ \E u \in U, m \in StartMessages, ok \in S : start_command(u, m, ok)
    \/ \E u \in U, m \in TextMessages(T) \cup PhotoMessages(P), ok \in S :
          handle_name_input(u, m, ok)
    \/ \E u \in U, m \in TextMessages(T) \cup PhotoMessages(P), ok \in S :
          handle_contact_input(u, m, ok)
    \/ \E u \in U, m \in TextMessages(T) \cup PhotoMessages(P), ok \in S :
          handle_city_input(u, m, ok)
    \/ \E u \in U, m \in PhotoMessages(P), h \in H, dbOk \in BOOLEAN, ok \in S, ok2 \in S :
          /\ sqliteSeq < cap
          /\ handle_photo_input(u, m, h, dbOk, ok, ok2)
    \/ \E u \in U, ok \in S : handle_cancel(u, ok)
    \/ \E u \in U, m \in TextMessages(T) \cup PhotoMessages(P) : unhandled(u, m)

\* Every user, one text, every handle; the transport accepts every reply.
Next == NextOver(Users, OneText, OnePhoto, Handles, {TRUE}, MaxRows)
Spec == Init /\ [][Next]_vars

\* One user filling the form with every text up to MaxLen, with every photo and
\* handle, who stops writing once the first row is stored; the transport accepts
\* every reply.
FormMessages == TextMessages(AllTexts) \cup PhotoMessages(Photos)

NextForm ==
    \/ init_db
    \/ Restart
    \/ \E m \in StartMessages : receipts = <<>> /\ start_command(1, m, TRUE)
    \/ \E m \in FormMessages : receipts = <<>> /\ handle_name_input(1, m, TRUE)
    \/ \E m \in FormMessages : receipts = <<>> /\ handle_contact_input(1, m, TRUE)
    \/ \E m \in FormMessages : receipts = <<>> /\ handle_city_input(1, m, TRUE)
    \/ \E m \in PhotoMessages(Photos), h \in Handles, dbOk \in BOOLEAN :
          receipts = <<>> /\ handle_photo_input(1, m, h, dbOk, TRUE, TRUE)
    \/ receipts = <<>> /\ handle_cancel(1, TRUE)
    \/ \E m \in FormMessages : receipts = <<>> /\ unhandled(1, m)
SpecForm == Init /\ [][NextForm]_vars

\* As Spec, with one handle, and a transport that may refuse a reply.
NextSend == NextOver(Users, OneText, OnePhoto, OneHandle, BOOLEAN, MaxRows)
SpecSend == Init /\ [][NextSend]_vars

\* One user whose updates are handled as tasks; handle_cancel has no statement
\* that touches the state after its first await, so it runs as one step.
NextTasks ==
    \/ init_db
    \/ Restart
    \/ \E m \in StartMessages : start_command_begin(1, m)
    \/ \E m \in TextMessages(OneText) \cup PhotoMessages(OnePhoto) :
          handle_name_input_begin(1, m)
    \/ \E m \in TextMessages(OneText) \cup PhotoMessages(OnePhoto) :
          handle_contact_input_begin(1, m)
    \/ \E m \in TextMessages(OneText) \cup PhotoMessages(OnePhoto) :
          handle_city_input_begin(1, m)
    \/ \E m \in PhotoMessages(OnePhoto), h \in Handles, dbOk \in BOOLEAN :
          /\ sqliteSeq < MaxRows
          /\ handle_photo_input_begin(1, m, h, dbOk)
    \/ \E i \in 1..MaxTasks : handler_resume(1, i)
    \/ handle_cancel(1, TRUE)
    \/ \E m \in TextMessages(OneText) \cup PhotoMessages(OnePhoto) : unhandled(1, m)
SpecTasks == Init /\ [][NextTasks]_vars

\* ------------------------------------------------------------------ claims
Last(q) == q[Len(q)]

\* C1: a user at NONE with empty fields who sends /start, three texts and a
\* photo, with nothing in between, visits NONE, waiting_for_name,
\* waiting_for_contact, waiting_for_city, waiting_for_photo, NONE in that order.
C1_StepSequence ==
    \A u \in Users : trail[u] = SubSeq(FullPath, 1, Len(trail[u]))

C1_Witness == \E u \in Users : trail[u] = FullPath

\* C2: /start, in any step, leaves the user at waiting_for_name with empty
\* fields and sends the name prompt.
C2_StartResets ==
    last.handler = "start_command" =>
        /\ step[last.user] = waiting_for_name
        /\ fields[last.user] = EmptyDict
        /\ out = <<Reply("ask_name", 0)>>

\* C3: cancel, in any step, leaves the user at NONE with empty fields, writes no
\* row and sends the cancellation text.
C3_Cancel ==
    [][\A u \in Users :
          (last'.handler = "handle_cancel" /\ last'.user = u) =>
              /\ step'[u] = NONE
              /\ fields'[u] = EmptyDict
              /\ receipts' = receipts
              /\ sqliteSeq' = sqliteSeq
              /\ out' = <<Reply("cancelled", 0)>>]_vars

C3_Witness ==
    /\ last.handler = "handle_cancel"
    /\ step[last.user] = NONE
    /\ out = <<Reply("cancelled", 0)>>
    /\ receipts # <<>>
    /\ \E v \in Users : step[v] = waiting_for_photo

\* C4: a photo received in a text step changes neither the step nor the fields,
\* sends no reply and writes no row.
C4_PhotoInTextStep ==
    [][\A u \in Users :
          (last'.user = u /\ last'.event = "photo" /\ step[u] \in TextSteps) =>
              /\ step' = step
              /\ fields' = fields
              /\ out' = <<>>
              /\ receipts' = receipts
              /\ sqliteSeq' = sqliteSeq]_vars

C4_Witness ==
    /\ last.event = "photo"
    /\ last.handler = "handle_contact_input"
    /\ step[last.user] = waiting_for_contact
    /\ DOMAIN fields[last.user] = {"name"}
    /\ out = <<>>

\* C5: a text (not /start) received at NONE or waiting_for_photo, and a photo
\* received at NONE, is ignored: no transition, no change of fields, no reply,
\* no row.
C5_Ignored ==
    [][\A u \in Users :
          (/\ last'.user = u
           /\ \/ last'.event = "text" /\ step[u] \in {NONE, waiting_for_photo}
              \/ last'.event = "photo" /\ step[u] = NONE) =>
              /\ step' = step
              /\ fields' = fields
              /\ out' = <<>>
              /\ receipts' = receipts
              /\ sqliteSeq' = sqliteSeq]_vars

C5_Witness ==
    /\ last.handler = "unhandled"
    /\ last.event = "text"
    /\ step[last.user] = waiting_for_photo
    /\ out = <<>>

\* C6: no handler raises, whatever the event and the step.
C6_NoEscape == last.raised = FALSE

\* C7: when the write fails in the photo handler, the user gets the error text
\* and no receipt number, no row is added, and the user is back at NONE with
\* empty fields.
C7_WriteFails ==
    [][\A u \in Users, m \in PhotoMessages(OnePhoto), h \in Handles, dbOk \in BOOLEAN :
          (handle_photo_input(u, m, h, dbOk, TRUE, TRUE) /\ (~dbOk \/ ~tableExists)) =>
              /\ out' = <<Reply("error", 0)>>
              /\ receipts' = receipts
              /\ sqliteSeq' = sqliteSeq
              /\ step'[u] = NONE
              /\ fields'[u] = EmptyDict]_vars

C7_Witness ==
    /\ last.handler = "handle_photo_input"
    /\ out = <<Reply("error", 0)>>
    /\ step[last.user] = NONE
    /\ fields[last.user] = EmptyDict
    /\ tableExists
    /\ Len(receipts) = 1

\* C8: the ids of the rows are strictly increasing in the order the rows were
\* written (so no id is used twice), and a receipt reply carries the id of the
\* row just written.
C8_ReceiptIds ==
    /\ \A i, j \in 1..Len(receipts) : i < j => receipts[i].id < receipts[j].id
    /\ \A k \in 1..Len(out) :
          out[k].text = "receipt" => receipts # <<>> /\ out[k].id = Last(receipts).id

C8_Witness ==
    /\ Len(receipts) = MaxRows
    /\ receipts[1].user_id # receipts[2].user_id
    /\ \E k \in 1..Len(out) : out[k].text = "receipt"

\* v is raw without its leading and trailing whitespace
Trimmed(raw, v) ==
    /\ \E a, b \in 0..Len(raw) :
          /\ a + b <= Len(raw)
          /\ v = SubSeq(raw, a + 1, Len(raw) - b)
          /\ \A k \in 1..a : raw[k] \in Whitespace
          /\ \A k \in (Len(raw) - b + 1)..Len(raw) : raw[k] \in Whitespace
    /\ v # <<>> => (v[1] \notin Whitespace /\ v[Len(v)] \notin Whitespace)

\* The fields of user 1 after a text handler ran on m: key holds the trimmed
\* text, the other keys are as they were.
StoresTrimmed(m, key) ==
    /\ DOMAIN fields'[1] = DOMAIN fields[1] \cup {key}
    /\ Trimmed(m.text[1], fields'[1][key])
    /\ \A k \in DOMAIN fields[1] \ {key} : fields'[1][k] = fields[1][k]

\* The handle a row is stored under: the user's, or the placeholder
DisplayHandle(h) == IF h \in {None, Some("")} THEN Some("No Username") ELSE h

\* C9: each text handler stores the trimmed text under its key and touches no
\* other key; a successful photo step writes the row (user id, handle, name,
\* contact, city, last photo size) with the texts stored in this pass, replies
\* with the row's id and leaves the user at NONE with empty fields.
C9_RowWritten ==
    [][/\ (last'.handler = "handle_name_input" /\ ~last'.raised) =>
             StoresTrimmed(last'.msg, "name")
       /\ (last'.handler = "handle_contact_input" /\ ~last'.raised) =>
             StoresTrimmed(last'.msg, "contact")
       /\ (last'.handler = "handle_city_input" /\ ~last'.raised) =>
             StoresTrimmed(last'.msg, "city")
       /\ \A h \in Handles :
             (/\ last'.handler = "handle_photo_input"
              /\ tableExists
              /\ handle_photo_input(1, last'.msg, h, TRUE, TRUE, TRUE)) =>
                 /\ receipts' = Append(receipts,
                        [id |-> sqliteSeq + 1, user_id |-> 1, user_name |-> DisplayHandle(h),
                         name |-> typed[1]["name"], contact |-> typed[1]["contact"],
                         city |-> typed[1]["city"], photo_id |-> Last(last'.msg.photo[1])])
                 /\ out' = <<Reply("receipt", Last(receipts').id)>>
                 /\ step'[1] = NONE
                 /\ fields'[1] = EmptyDict]_vars

C9_Witness ==
    /\ last.handler = "handle_photo_input"
    /\ receipts = <<[id |-> 1, user_id |-> 1, user_name |-> Some("alice"),
                     name |-> <<"a">>, contact |-> <<>>, city |-> <<"a", " ", "a">>,
                     photo_id |-> "large"]>>
    /\ out = <<Reply("receipt", 1)>>
    /\ step[1] = NONE

\* C10: a user without a public handle is stored under the placeholder, and no
\* row has an empty or null user_name.
C10_Placeholder ==
    [][/\ \A u \in Users, m \in PhotoMessages(OnePhoto), dbOk \in BOOLEAN :
             (handle_photo_input(u, m, None, dbOk, TRUE, TRUE) /\ receipts' # receipts) =>
                 Last(receipts').user_name = Some(NoUsername)
       /\ \A i \in 1..Len(receipts') :
             receipts'[i].user_name \notin {None, Some("")}]_vars

C10_Witness ==
    /\ receipts # <<>>
    /\ Last(receipts).user_name = Some(NoUsername)
    /\ last.handler = "handle_photo_input"

\* C11: init_db, called on a store that already holds the table, changes
\* nothing: the table is still there, with the same rows and the same id
\* sequence.
C11_BootstrapIdempotent ==
    [][(phase = "boot" /\ phase' = "polling" /\ tableExists) =>
          /\ dbExists' /\ tableExists'
          /\ receipts' = receipts
          /\ sqliteSeq' = sqliteSeq]_vars

C11_Witness ==
    /\ phase = "polling"
    /\ last = NoEvent
    /\ tableExists
    /\ Len(receipts) = MaxRows
    /\ sqliteSeq = MaxRows

\* The keys the form has collected when the user is at step s
KeysAt(s) ==
    IF s = waiting_for_contact THEN {"name"}
    ELSE IF s = waiting_for_city THEN {"name", "contact"}
    ELSE IF s = waiting_for_photo THEN {"name", "contact", "city"}
    ELSE {}

\* C12: the fields of a user hold exactly the keys of the steps completed.
C12_FieldsKeys == \A u \in Users : DOMAIN fields[u] = KeysAt(step[u])

\* C13: once init_db has run, the table exists, whatever the store was before.
C13_TableAfterBootstrap == phase = "polling" => tableExists

\* The rows user u's suspended photo handlers have committed
RowsInFlight(u) ==
    {i \in 1..Len(pending[u]) :
        pending[u][i].handler = "handle_photo_input" /\ pending[u][i].receipt_id # 0}

\* C14: an event of a user is handled to its end before the user's next event
\* is taken; so the photos a user sends in waiting_for_photo never have two
\* rows committed by handlers that have not yet finished.
C14_OneRowPerPhotoStep == \A u \in Users : Cardinality(RowsInFlight(u)) <= 1

FormKeys == {"name", "contact", "city"}

\* C15: a row is written only from a conversation whose fields hold name,
\* contact and city, and the row carries the user's id, a user name that is
\* neither null nor empty, the three stored texts and a photo file id.
C15_RowsPopulated ==
    [][receipts' # receipts =>
          LET u == last'.user
              row == Last(receipts')
          IN /\ FormKeys \subseteq DOMAIN fields[u]
             /\ row.user_id = u
             /\ row.user_name \notin {None, Some("")}
             /\ row.name = fields[u]["name"]
             /\ row.contact = fields[u]["contact"]
             /\ row.city = fields[u]["city"]
             /\ row.photo_id = Last(last'.msg.photo[1])]_vars

\* a photo taken in waiting_for_photo with a key missing wrote no row, after
\* an earlier photo of the user had written one
C15_Witness ==
    /\ last.handler = "handle_photo_input"
    /\ step[1] = waiting_for_photo
    /\ ~(FormKeys \subseteq DOMAIN fields[1])
    /\ tableExists
    /\ Len(receipts) = 1
    /\ out = <<Reply("error", 0)>>

\* C16: an event of one user, a photo whose write fails included, leaves the
\* step and the fields of every other user and every stored row as they were.
C16_UsersIsolated ==
    [][(phase = "polling" /\ phase' = "polling") =>
          /\ \A v \in Users \ {last'.user} :
                step'[v] = step[v] /\ fields'[v] = fields[v]
          /\ Len(receipts') >= Len(receipts)
          /\ SubSeq(receipts', 1, Len(receipts)) = receipts]_vars

\* user 1's write has just failed while user 2 is in the form and holds a row
C16_Witness ==
    /\ last.user = 1
    /\ last.handler = "handle_photo_input"
    /\ out = <<Reply("error", 0)>>
    /\ step[1] = NONE
    /\ step[2] = waiting_for_city
    /\ DOMAIN fields[2] = {"name", "contact"}
    /\ \E i \in 1..Len(receipts) : receipts[i].user_id = 2

\* C17: the store only grows: the rows written stay as they are, and a row is
\* added only by handle_photo_input taking a photo of a user in
\* waiting_for_photo, one row at a time.
C17_AppendOnly ==
    [][/\ Len(receipts') >= Len(receipts)
       /\ SubSeq(receipts', 1, Len(receipts)) = receipts
       /\ receipts' # receipts =>
             /\ Len(receipts') = Len(receipts) + 1
             /\ last'.handler = "handle_photo_input"
             /\ last'.event = "photo"
             /\ step[last'.user] = waiting_for_photo]_vars

\* the store is full, a user is back in the form and a cancel came last
C17_Witness ==
    /\ Len(receipts) = MaxRows
    /\ last.handler = "handle_cancel"
    /\ \E u \in Users : step[u] = waiting_for_contact

HasReply(o, text) == \E i \in 1..Len(o) : o[i].text = text

\* C18: the reply of the photo step tells the outcome of the write: the
\* receipt reply carries the id of the row this event committed, and the
\* error reply is sent only when this event stored no row.
C18_ReplyReflectsWrite ==
    [][last'.handler = "handle_photo_input" =>
          /\ HasReply(out', "receipt") =>
                /\ Len(receipts') = Len(receipts) + 1
                /\ out' = <<Reply("receipt", Last(receipts').id)>>
          /\ HasReply(out', "error") => receipts' = receipts]_vars

\* C19: a user in waiting_for_photo has name, contact and city stored, so the
\* lookups of handle_photo_input find their keys.
C19_PhotoStepHasFields ==
    \A u \in Users : step[u] = waiting_for_photo => FormKeys \subseteq DOMAIN fields[u]

====
